---- MODULE Spec2Model ----
(***************************************************************************)
(* TTView: the rescale + render pipeline.                                  *)
(*   resizing.rs  resize(image, (width?, height?), filter)                 *)
(*   styling.rs   Style::apply, brightness, fg, bg, greyscale, quantize,   *)
(*                floyd_steinberg                                          *)
(***************************************************************************)
EXTENDS Integers, Sequences, FiniteSets, TLC

(***************************************************************************)
(* Bounds of the model.                                                    *)
(***************************************************************************)
\* Largest source dimension and largest requested dimension of a resize.
MaxDim == 4
\* Largest number of pixels of a rendered image drawn from the full palette.
MaxPixels == 4
\* Largest two-tone image rendered with the Braille style (one full 2x4 block).
MaxBrailleW == 2
MaxBrailleH == 4
\* Longest glyph ramp of the Gradient style.
MaxRamp == 3

VARIABLES
    request,    \* resize: the arguments of the call (source size, dim, filter)
    resampled,  \* resize: the call made on the image crate (fn, nwidth, nheight, filter)
    outcome,    \* resize: "idle" | "returned" | "panicked"
    image,      \* apply: the Rgb32FImage buffer, row-major sequence of <<r, g, b>>
    width,      \* apply: image.width()
    height,     \* apply: image.height()
    style,      \* apply: the Style variant
    gradient,   \* apply: the ramp of Style::Gradient (<<>> for the other variants)
    string,     \* apply: the String built so far, as a sequence of tokens
    status,     \* apply: "ready" | "dithering" | "returned" | "panic: ..."
    pos,        \* floyd_steinberg: raster index of the next pixel to quantize
    start,      \* history: the buffer floyd_steinberg started from
    lost,       \* history: per channel, the residual shares that found no pixel
    residual,   \* history: the error quantize returned in the last step
    pixelsRead  \* history: number of pixel reads the call has made

rvars == <<request, resampled, outcome>>
avars == <<image, width, height, style, gradient, string, status, pos, start,
           lost, residual, pixelsRead>>
vars == <<request, resampled, outcome, image, width, height, style, gradient,
          string, status, pos, start, lost, residual, pixelsRead>>

(***************************************************************************)
(* f32 arithmetic, as far as resize uses it.  A non-negative finite f32 is *)
(* [m, e] with value m * 2^e and 2^23 <= m < 2^24 (or m = 0).              *)
(***************************************************************************)
Pow2(n) == 2 ^ n

F32Zero == [m |-> 0, e |-> 0]

RECURSIVE BitLen(_)
BitLen(n) == IF n = 0 THEN 0 ELSE 1 + BitLen(n \div 2)

\* The f32 nearest to n * 2^e (ties to even), n a non-negative integer.
F32Round(n, e) ==
    IF n = 0 THEN F32Zero
    ELSE LET len == BitLen(n) IN
         IF len <= 24
         THEN [m |-> n * Pow2(24 - len), e |-> e - (24 - len)]
         ELSE LET s    == len - 24
                  q    == n \div Pow2(s)
                  r    == n % Pow2(s)
                  half == Pow2(s - 1)
                  up   == r > half \/ (r = half /\ q % 2 = 1)
                  q2   == IF up THEN q + 1 ELSE q
              IN  IF q2 = Pow2(24)
                  THEN [m |-> Pow2(23), e |-> e + s + 1]
                  ELSE [m |-> q2, e |-> e + s]

\* (a as f32) / (b as f32) for integers 0 <= a, 1 <= b, both below 2^24 and
\* so exact as f32: the quotient rounded to nearest, ties to even.
RECURSIVE DivShift(_, _, _)
DivShift(a, b, k) == IF a * Pow2(k) >= Pow2(23) * b THEN k ELSE DivShift(a, b, k + 1)

F32Div(a, b) ==
    IF a = 0 THEN F32Zero
    ELSE LET k  == DivShift(a, b, 0)
             n  == a * Pow2(k)
             q  == n \div b
             r  == n % b
             up == 2 * r > b \/ (2 * r = b /\ q % 2 = 1)
             q2 == IF up THEN q + 1 ELSE q
         IN  IF q2 = Pow2(24)
             THEN [m |-> Pow2(23), e |-> 1 - k]
             ELSE [m |-> q2, e |-> 0 - k]

\* (n as f32) * x for an integer n below 2^7, rounded to nearest.
F32MulInt(n, x) == F32Round(n * x.m, x.e)

\* x as u32: truncation toward zero (x is non-negative here).
F32AsU32(x) ==
    IF x.m = 0 THEN 0
    ELSE IF x.e >= 0 THEN x.m * Pow2(x.e)
    ELSE IF 0 - x.e >= 24 THEN 0
    ELSE x.m \div Pow2(0 - x.e)

(***************************************************************************)
(* resizing.rs                                                             *)
(***************************************************************************)
None == 0 - 1

Filter == {"Nearest", "Triangle", "CatmullRom", "Gaussian", "Lanczos3"}

\* The match of Filter to the image crate's FilterType.
FilterType(filter) ==
    CASE filter = "Nearest"    -> "FilterType::Nearest"
      [] filter = "Triangle"   -> "FilterType::Triangle"
      [] filter = "CatmullRom" -> "FilterType::CatmullRom"
      [] filter = "Gaussian"   -> "FilterType::Gaussian"
      [] filter = "Lanczos3"   -> "FilterType::Lanczos3"

\* (Some(width), None): the height handed to image.resize.
WidthOnlyHeight(img_width, img_height, w) ==
    LET scale == F32Div(w, img_width)
    IN  F32AsU32(F32MulInt(img_height, scale))

\* (None, Some(height)): the width handed to image.resize.
HeightOnlyWidth(img_width, img_height, h) ==
    LET scale == F32Div(h, img_height)
    IN  F32AsU32(F32MulInt(img_width, scale))

NoCall == [fn |-> "none", nwidth |-> 0, nheight |-> 0, filter |-> "none"]

\* The call resize makes on the image, or NoCall where it reaches unreachable!().
ResizeCall(img_width, img_height, dim, filter) ==
    CASE dim[1] # None /\ dim[2] = None ->
            [fn |-> "resize", nwidth |-> dim[1],
             nheight |-> WidthOnlyHeight(img_width, img_height, dim[1]),
             filter |-> FilterType(filter)]
      [] dim[1] = None /\ dim[2] # None ->
            [fn |-> "resize",
             nwidth |-> HeightOnlyWidth(img_width, img_height, dim[2]),
             nheight |-> dim[2], filter |-> FilterType(filter)]
      [] dim[1] # None /\ dim[2] # None ->
            [fn |-> "resize_exact", nwidth |-> dim[1], nheight |-> dim[2],
             filter |-> FilterType(filter)]
      [] OTHER -> NoCall

Dims == (None .. MaxDim) \X (None .. MaxDim)

IdleRequest == [img_width |-> 1, img_height |-> 1, dim |-> <<None, None>>,
                filter |-> "Gaussian"]

Zero3 == <<0, 0, 0>>

\* The state before resize is called; no render call is under way.
ResizeInit ==
    /\ request = IdleRequest
    /\ resampled = NoCall
    /\ outcome = "idle"
    /\ image = <<>> /\ width = 0 /\ height = 0
    /\ style = "Color" /\ gradient = <<>> /\ string = <<>>
    /\ status = "returned" /\ pos = 0 /\ start = <<>>
    /\ lost = Zero3 /\ residual = Zero3 /\ pixelsRead = 0

Resize ==
    /\ outcome = "idle"
    /\ \E img_width \in 1 .. MaxDim, img_height \in 1 .. MaxDim,
          dim \in Dims, filter \in Filter :
          LET call == ResizeCall(img_width, img_height, dim, filter) IN
          /\ request' = [img_width |-> img_width, img_height |-> img_height,
                         dim |-> dim, filter |-> filter]
          /\ resampled' = call
          /\ outcome' = IF call.fn = "none" THEN "panicked" ELSE "returned"
    /\ UNCHANGED avars

(***************************************************************************)
(* Channel values.  An f32 channel is a fixed-point integer: One stands    *)
(* for 1.0 and Quantum is the resolution of an input channel and of a      *)
(* brightness.  Below Quantum there are four fractional bits per pixel of  *)
(* the largest dithered image, so that every share error * f / 16 of the   *)
(* diffusion is exact, as it is in f32 for these inputs.                   *)
(***************************************************************************)
Quantum == 16 ^ MaxPixels
One == 64 * Quantum
Half == One \div 2

\* floor(c * n / One) for 0 <= n < 2^11, computed without leaving 32 bits.
Scale(c, n) ==
    ((c \div Quantum) * n + ((c % Quantum) * n) \div Quantum) \div 64

(***************************************************************************)
(* styling.rs: the pixel primitives                                        *)
(***************************************************************************)
\* 0.299 r + 0.587 g + 0.114 b, rounded to the nearest multiple of Quantum.
brightness(pixel) ==
    LET hi == 299 * (pixel[1] \div Quantum) + 587 * (pixel[2] \div Quantum)
              + 114 * (pixel[3] \div Quantum)
        lo == 299 * (pixel[1] % Quantum) + 587 * (pixel[2] % Quantum)
              + 114 * (pixel[3] % Quantum)
    IN  Quantum * ((hi + lo \div Quantum + 500) \div 1000)

\* (channel * 255.0) as u8: truncation, saturating at 0 and at 255.
AsU8(channel) ==
    LET t == Scale(channel, 255)
    IN  IF t < 0 THEN 0 ELSE IF t > 255 THEN 255 ELSE t

fg(color) == <<"fg", AsU8(color[1]), AsU8(color[2]), AsU8(color[3])>>

bg(color) == <<"bg", AsU8(color[1]), AsU8(color[2]), AsU8(color[3])>>

\* The literals the styles append.
Block == <<"block">>
Reset == <<"reset">>
Newline == <<"newline">>

\* A bounds check on the flattened index alone: x = width lands on the
\* first pixel of the next row.
PixelIndexFlat(w, h, x, y) ==
    IF x >= 0 /\ y >= 0 /\ y * w + x < w * h THEN y * w + x + 1 ELSE 0

\* get_pixel_checked / get_pixel_mut_checked: the index of (x, y) in the
\* buffer, or 0 for None.
PixelIndex(w, h, x, y) ==
    IF x >= 0 /\ y >= 0 /\ x < w /\ y < h THEN y * w + x + 1 ELSE 0

\* y in (0..h).step_by(n), as the sequence of the values taken.
StepBy(h, n) == [k \in 1 .. ((h + n - 1) \div n) |-> n * (k - 1)]

RECURSIVE Flatten(_)
Flatten(seqs) ==
    IF seqs = <<>> THEN <<>> ELSE Head(seqs) \o Flatten(Tail(seqs))

(***************************************************************************)
(* Style::apply, the variants that only read the buffer                    *)
(***************************************************************************)
ColorCell(img, w, h, x, y) ==
    LET bot == PixelIndex(w, h, x, y + 1)
    IN  <<fg(img[PixelIndex(w, h, x, y)])>>
        \o (IF bot # 0 THEN <<bg(img[bot])>> ELSE <<>>)
        \o <<Block, Reset>>

ApplyColorString(img, w, h) ==
    LET ys == StepBy(h, 2)
    IN  Flatten([k \in 1 .. Len(ys) |->
            Flatten([x \in 1 .. w |-> ColorCell(img, w, h, x - 1, ys[k])])
            \o <<Newline>>])

Grey(b) == <<b, b, b>>

GreyscaleCell(img, w, h, x, y) ==
    LET bot == PixelIndex(w, h, x, y + 1)
    IN  <<fg(Grey(brightness(img[PixelIndex(w, h, x, y)])))>>
        \o (IF bot # 0 THEN <<bg(Grey(brightness(img[bot])))>> ELSE <<>>)
        \o <<Block, Reset>>

ApplyGreyscaleString(img, w, h) ==
    LET ys == StepBy(h, 2)
    IN  Flatten([k \in 1 .. Len(ys) |->
            Flatten([x \in 1 .. w |-> GreyscaleCell(img, w, h, x - 1, ys[k])])
            \o <<Newline>>])

\* Coordinate offsets of the braille dots, (column, row).
offsets == << <<0, 0>>, <<0, 1>>, <<0, 2>>, <<1, 0>>, <<1, 1>>, <<1, 2>>,
              <<0, 3>>, <<1, 3>> >>

\* The threshold taken inclusively: b <= 0.5.
IsSetInclusive(b) == b <= Half

\* let is_set = b < 0.5
IsSet(b) == b < Half

\* byte | (1 << index), index counted from 0
BitOr(byte, index) ==
    IF (byte \div Pow2(index)) % 2 = 1 THEN byte ELSE byte + Pow2(index)

RECURSIVE BrailleByte(_, _, _, _, _, _, _)
BrailleByte(img, w, h, x, y, index, byte) ==
    IF index >= Len(offsets) THEN byte
    ELSE LET at == PixelIndex(w, h, x + offsets[index + 1][1],
                              y + offsets[index + 1][2])
             next == IF at # 0 /\ IsSet(brightness(img[at]))
                     THEN BitOr(byte, index) ELSE byte
         IN  BrailleByte(img, w, h, x, y, index + 1, next)

\* char::from_u32(0x2800 + byte)
BrailleChar(byte) == <<"char", 10240 + byte>>

ApplyBrailleString(img, w, h) ==
    LET ys == StepBy(h, 4)
        xs == StepBy(w, 2)
    IN  Flatten([k \in 1 .. Len(ys) |->
            [c \in 1 .. Len(xs) |->
                BrailleChar(BrailleByte(img, w, h, xs[c], ys[k], 0, 0))]
            \o <<Newline>>])

(***************************************************************************)
(* Style::apply, Gradient.  The lookup gradient[char_index] panics when    *)
(* the index is out of bounds, and gradient.len() - 1 on an empty ramp     *)
(* panics in a build with overflow checks and wraps to usize::MAX without. *)
(***************************************************************************)
Builds == {"debug", "release"}

PanicSub == "panic: attempt to subtract with overflow"
PanicIndex == "panic: index out of bounds"

\* The cell of (x, y): the glyph, or the panic that ends the call.
GradientCell(img, w, h, ramp, build, x, y) ==
    LET bot == PixelIndex(w, h, x, y + 1)
        top == brightness(img[PixelIndex(w, h, x, y)])
        b   == IF bot # 0 THEN (top + brightness(img[bot])) \div 2 ELSE top
        n   == Len(ramp)
        t   == Scale(b, n - 1)
        char_index == IF t < 0 THEN 0 ELSE t
    IN  IF n = 0
        THEN [panic |-> IF build = "debug" THEN PanicSub ELSE PanicIndex,
              out |-> <<>>, reads |-> IF bot # 0 THEN 2 ELSE 1]
        ELSE IF char_index >= n
        THEN [panic |-> PanicIndex, out |-> <<>>,
              reads |-> IF bot # 0 THEN 2 ELSE 1]
        ELSE [panic |-> "", out |-> << <<"char", ramp[char_index + 1]>>, Reset, Reset >>,
              reads |-> IF bot # 0 THEN 2 ELSE 1]

\* The loops of the Gradient arm from (x, y) on: what the call ends with.
RECURSIVE GradientFrom(_, _, _, _, _, _, _, _, _)
GradientFrom(img, w, h, ramp, build, x, y, acc, reads) ==
    IF y >= h THEN [status |-> "returned", string |-> acc, reads |-> reads]
    ELSE IF x >= w
    THEN GradientFrom(img, w, h, ramp, build, 0, y + 2, acc \o <<Newline>>, reads)
    ELSE LET cell == GradientCell(img, w, h, ramp, build, x, y)
         IN  IF cell.panic # ""
             THEN [status |-> cell.panic, string |-> acc,
                   reads |-> reads + cell.reads]
             ELSE GradientFrom(img, w, h, ramp, build, x + 1, y,
                               acc \o cell.out, reads + cell.reads)

(***************************************************************************)
(* greyscale, quantize, floyd_steinberg                                    *)
(***************************************************************************)
greyscale(img) == [k \in 1 .. Len(img) |-> Grey(brightness(img[k]))]

\* The comparison inverted: the farther of 0.0 and 1.0.
QuantizeChannelInverted(value) == IF value < Half THEN One ELSE 0

\* let q = if value < 0.5 { 0.0 } else { 1.0 }
QuantizeChannel(value) == IF value < Half THEN 0 ELSE One

\* The error taken as q - value.
quantizeErrorNegated(pixel) ==
    [pixel |-> [c \in 1 .. 3 |-> IF pixel[c] < Half THEN 0 ELSE One],
     error |-> [c \in 1 .. 3 |-> (IF pixel[c] < Half THEN 0 ELSE One) - pixel[c]]]

\* The pixel as quantize leaves it, and the error it returns.
quantize(pixel) ==
    [pixel |-> [c \in 1 .. 3 |-> QuantizeChannel(pixel[c])],
     error |-> [c \in 1 .. 3 |-> pixel[c] - QuantizeChannel(pixel[c])]]

\* (i, j, f) of floyd_steinberg
indices == << <<1, 0, 7>>, <<0 - 1, 1, 3>>, <<0, 1, 5>>, <<1, 1, 1>> >>

\* error * (f / 16) with the quotient taken in integers.
ShareIntegerQuotient(error, f) == error * (f \div 16)

\* error * f / 16.0
Share(error, f) == (error \div 16) * f + ((error % 16) * f) \div 16

\* The inner loop over indices from its k-th entry on: the buffer it leaves
\* and, per channel, the shares that were skipped or found no pixel.
RECURSIVE Diffuse(_, _, _, _, _, _, _, _)
Diffuse(img, w, h, x, y, error, k, dropped) ==
    IF k > Len(indices) THEN [image |-> img, dropped |-> dropped]
    ELSE LET i == indices[k][1]
             j == indices[k][2]
             f == indices[k][3]
             share == [c \in 1 .. 3 |-> Share(error[c], f)]
             at == IF x = 0 /\ i = 0 - 1 THEN 0 ELSE PixelIndex(w, h, x + i, y + j)
         IN  IF at = 0
             THEN Diffuse(img, w, h, x, y, error, k + 1,
                          [c \in 1 .. 3 |-> dropped[c] + share[c]])
             ELSE Diffuse([img EXCEPT ![at] = [c \in 1 .. 3 |-> img[at][c] + share[c]]],
                          w, h, x, y, error, k + 1, dropped)

(***************************************************************************)
(* The render call: Style::apply(&self, image)                             *)
(***************************************************************************)
Palette == { <<0, 0, 0>>,                       \* black
             <<One, 0, One \div 4>>,            \* a dark colour
             <<Half, Half, Half>>,              \* mid grey
             <<One, One, One>>,                 \* white
             <<2 * One, 2 * One, 2 * One>> }    \* a highlight above 1.0

TwoTone == { <<One, 0, One \div 4>>, <<Half, Half, Half>> }

Glyphs == <<" ", ".", ":", "-", "=", "+", "*", "#", "%", "@">>

Ramp(n) == SubSeq(Glyphs, 1, n)

\* A style with its payload: the ramp, for Gradient.
StyleChoices ==
    ({"Color", "Greyscale", "Braille", "DitheredBraille", "Dithered"} \X {<<>>})
    \cup ({"Gradient"} \X {Ramp(n) : n \in 0 .. MaxRamp})

MaxSide == IF MaxPixels > MaxBrailleH THEN MaxPixels ELSE MaxBrailleH

\* The state in which apply is called; no resize is under way.
ApplyInit ==
    /\ request = IdleRequest
    /\ resampled = NoCall
    /\ outcome = "idle"
    /\ \E w \in 0 .. MaxSide, h \in 0 .. MaxSide :
          /\ width = w
          /\ height = h
          /\ \/ /\ w * h <= MaxPixels
                /\ image \in [1 .. w * h -> Palette]
                /\ \E choice \in StyleChoices :
                      style = choice[1] /\ gradient = choice[2]
             \/ /\ w * h > MaxPixels
                /\ w <= MaxBrailleW
                /\ h <= MaxBrailleH
                /\ image \in [1 .. w * h -> TwoTone]
                /\ style = "Braille"
                /\ gradient = <<>>
    /\ string = <<>>
    /\ status = "ready"
    /\ pos = 0
    /\ start = <<>>
    /\ lost = Zero3
    /\ residual = Zero3
    /\ pixelsRead = 0

ApplyColor ==
    /\ status = "ready" /\ style = "Color"
    /\ string' = ApplyColorString(image, width, height)
    /\ status' = "returned"
    /\ pixelsRead' = width * height
    /\ UNCHANGED <<image, width, height, style, gradient, pos, start, lost, residual>>
    /\ UNCHANGED rvars

ApplyGradient ==
    /\ status = "ready" /\ style = "Gradient"
    /\ \E build \in Builds :
          LET end == GradientFrom(image, width, height, gradient, build, 0, 0, <<>>, 0)
          IN  /\ string' = end.string
              /\ status' = end.status
              /\ pixelsRead' = end.reads
    /\ UNCHANGED <<image, width, height, style, gradient, pos, start, lost, residual>>
    /\ UNCHANGED rvars

ApplyGreyscale ==
    /\ status = "ready" /\ style = "Greyscale"
    /\ string' = ApplyGreyscaleString(image, width, height)
    /\ status' = "returned"
    /\ pixelsRead' = width * height
    /\ UNCHANGED <<image, width, height, style, gradient, pos, start, lost, residual>>
    /\ UNCHANGED rvars

ApplyBraille ==
    /\ status = "ready" /\ style = "Braille"
    /\ string' = ApplyBrailleString(image, width, height)
    /\ status' = "returned"
    /\ pixelsRead' = width * height
    /\ UNCHANGED <<image, width, height, style, gradient, pos, start, lost, residual>>
    /\ UNCHANGED rvars

\* DitheredBraille / Dithered: greyscale(image), and floyd_steinberg entered.
ApplyDithered ==
    /\ status = "ready" /\ style \in {"DitheredBraille", "Dithered"}
    /\ image' = greyscale(image)
    /\ start' = greyscale(image)
    /\ status' = "dithering"
    /\ pos' = 0
    /\ pixelsRead' = width * height
    /\ UNCHANGED <<width, height, style, gradient, string, lost, residual>>
    /\ UNCHANGED rvars

\* One iteration of the loops of floyd_steinberg: the pixel at (x, y).
FloydSteinbergStep ==
    /\ status = "dithering" /\ pos < width * height
    /\ LET x == pos % width
           y == pos \div width
           old_pixel == quantize(image[pos + 1])
           d == Diffuse([image EXCEPT ![pos + 1] = old_pixel.pixel],
                        width, height, x, y, old_pixel.error, 1, Zero3)
       IN  /\ image' = d.image
           /\ lost' = [c \in 1 .. 3 |-> lost[c] + d.dropped[c]]
           /\ residual' = old_pixel.error
    /\ pos' = pos + 1
    /\ UNCHANGED <<width, height, style, gradient, string, status, start, pixelsRead>>
    /\ UNCHANGED rvars

\* floyd_steinberg has returned: Self::Braille.apply / Self::Greyscale.apply.
Delegate ==
    /\ status = "dithering" /\ pos = width * height
    /\ string' = IF style = "DitheredBraille"
                 THEN ApplyBrailleString(image, width, height)
                 ELSE ApplyGreyscaleString(image, width, height)
    /\ status' = "returned"
    /\ pixelsRead' = pixelsRead + width * height
    /\ UNCHANGED <<image, width, height, style, gradient, pos, start, lost, residual>>
    /\ UNCHANGED rvars

ResizeNext == Resize

SpecResize ==
    /\ ResizeInit
    /\ [][ResizeNext]_vars

ApplyNext ==
    \/ ApplyColor
    \/ ApplyGradient
    \/ ApplyGreyscale
    \/ ApplyBraille
    \/ ApplyDithered
    \/ FloydSteinbergStep
    \/ Delegate

SpecApply ==
    /\ ApplyInit
    /\ [][ApplyNext]_vars

(***************************************************************************)
(* Properties of resize                                                    *)
(***************************************************************************)
\* n / d rounded to the nearest integer, halves upward.
RoundDiv(n, d) == (2 * n + d) \div (2 * d)

WidthOnly == request.dim[1] # None /\ request.dim[2] = None

\* C1: for a request (Some(width), None) on an image of size (ow, oh), the
\* height resize computes is round(width * oh / ow), the nearest integer,
\* whatever the filter.
C1_HeightIsRounded ==
    (outcome = "returned" /\ WidthOnly) =>
        resampled.nheight =
            RoundDiv(request.dim[1] * request.img_height, request.img_width)

\* C2: a zero requested or computed dimension ends resize with
\* InvalidDimensions and is never handed to the resampling step: whenever
\* the image crate is called, both dimensions are at least 1.
C2_ZeroDimensionRejected ==
    outcome # "idle" =>
        /\ resampled.fn # "none" =>
              (resampled.nwidth >= 1 /\ resampled.nheight >= 1)
        /\ (0 \in {request.dim[1], request.dim[2]}) =>
              outcome = "InvalidDimensions"

(***************************************************************************)
(* Properties of the styles that only read the buffer                      *)
(***************************************************************************)
Clamp(v, lo, hi) == IF v < lo THEN lo ELSE IF v > hi THEN hi ELSE v

\* The values round(channel * 255) clamped to [0, 255] may take: the nearest
\* integer, and either neighbour when channel * 255 is exactly a half.
RoundedU8(channel) ==
    LET twice == Scale(channel, 510)
        whole == /\ ((channel % Quantum) * 510) % Quantum = 0
                 /\ ((channel \div Quantum) * 510
                     + ((channel % Quantum) * 510) \div Quantum) % 64 = 0
        tie   == twice % 2 = 1 /\ whole
        near  == (twice + 1) \div 2
    IN  IF channel < 0 THEN {0}
        ELSE IF channel > One THEN {255}
        ELSE IF tie THEN {Clamp(near - 1, 0, 255), Clamp(near, 0, 255)}
        ELSE {Clamp(near, 0, 255)}

IsRounded(token, tag, pixel) ==
    /\ token[1] = tag
    /\ \A c \in 1 .. 3 : token[c + 1] \in RoundedU8(pixel[c])

\* C3: the three numbers fg and bg write for a pixel are round(channel * 255)
\* clamped to [0, 255], for every channel value.
C3_ChannelsRounded ==
    (style = "Color" /\ status = "returned") =>
        \A x \in 0 .. width - 1, y \in 0 .. height - 1 :
            y % 2 = 0 =>
                LET cell == IF y + 1 < height THEN 4 ELSE 3
                    at   == (y \div 2) * (4 * width + 1) + x * cell + 1
                IN  /\ IsRounded(string[at], "fg", image[y * width + x + 1])
                    /\ y + 1 < height =>
                          IsRounded(string[at + 1], "bg",
                                    image[(y + 1) * width + x + 1])

\* C4: with a non-empty ramp of length n, apply returns, and the glyph of
\* each cell is ramp[i], i = floor((n - 1) * b) clamped into 0 .. n - 1, b the
\* top brightness averaged with the bottom brightness where there is one.
C4_GradientIndexInRange ==
    (style = "Gradient" /\ Len(gradient) >= 1 /\ status # "ready") =>
        /\ status = "returned"
        /\ \A x \in 0 .. width - 1, y \in 0 .. height - 1 :
              y % 2 = 0 =>
                  LET n   == Len(gradient)
                      top == brightness(image[y * width + x + 1])
                      b   == IF y + 1 < height
                             THEN (top + brightness(image[(y + 1) * width + x + 1])) \div 2
                             ELSE top
                      i   == Clamp(Scale(b, n - 1), 0, n - 1)
                      at  == (y \div 2) * (3 * width + 1) + 3 * x + 1
                  IN  string[at] = <<"char", gradient[i + 1]>>

\* C5: Gradient with an empty ramp is rejected with EmptyGradientRamp before
\* any pixel is read and before any output is produced, for every image.
C5_EmptyRampRejected ==
    (style = "Gradient" /\ gradient = <<>> /\ status # "ready") =>
        /\ status = "EmptyGradientRamp"
        /\ pixelsRead = 0
        /\ string = <<>>

\* The offset table of the Braille style, (column, row), bit 0 first.
DotTable == << <<0, 0>>, <<0, 1>>, <<0, 2>>, <<1, 0>>, <<1, 1>>, <<1, 2>>,
               <<0, 3>>, <<1, 3>> >>

Bit(n, k) == (n \div Pow2(k)) % 2

\* The glyph at block (bx, by) of a Braille string has bit k set exactly when
\* the k-th dot lies inside the image and Dark holds of its pixel index.
BrailleGlyphs(Dark(_)) ==
    LET lines == (height + 3) \div 4
        cols  == (width + 1) \div 2
    IN  /\ Len(string) = lines * (cols + 1)
        /\ \A by \in 0 .. lines - 1 :
              /\ string[by * (cols + 1) + cols + 1] = Newline
              /\ \A bx \in 0 .. cols - 1 :
                    LET token == string[by * (cols + 1) + bx + 1]
                        b     == token[2] - 10240
                    IN  /\ token[1] = "char"
                        /\ b \in 0 .. 255
                        /\ \A k \in 0 .. 7 :
                              LET px == 2 * bx + DotTable[k + 1][1]
                                  py == 4 * by + DotTable[k + 1][2]
                              IN  Bit(b, k) = 1 <=>
                                      (px < width /\ py < height
                                       /\ Dark(py * width + px + 1))

BelowHalf(at) ==
    299 * (image[at][1] \div Quantum) + 587 * (image[at][2] \div Quantum)
    + 114 * (image[at][3] \div Quantum) < 500 * 64

\* C6: the Braille style emits ceil(h/4) lines of ceil(w/2) glyphs, the glyph
\* of a block being 0x2800 + b with bit k of b set iff the k-th offset of the
\* table lies inside the image and that pixel's brightness is below 0.5.
C6_BrailleEncoding ==
    (style = "Braille" /\ status = "returned") => BrailleGlyphs(BelowHalf)

\* A full 2x4 block of dark pixels has been rendered as U+28FF.
C6_Witness ==
    /\ style = "Braille" /\ status = "returned"
    /\ width = 2 /\ height = 4
    /\ \A k \in 1 .. 8 : image[k] = <<One, 0, One \div 4>>
    /\ string = << <<"char", 10495>>, Newline >>

(***************************************************************************)
(* Properties of the dithering pass                                        *)
(***************************************************************************)
Dithers == style \in {"DitheredBraille", "Dithered"}

InPass == Dithers /\ status \in {"dithering", "returned"}

RECURSIVE ChannelSum(_, _, _)
ChannelSum(img, c, k) ==
    IF k = 0 THEN 0 ELSE img[k][c] + ChannelSum(img, c, k - 1)

C8_FlatGreyGetsBothValues ==
    (/\ style = "Dithered" /\ status \in {"dithering", "returned"}
     /\ pos = width * height
     /\ width * height >= 2
     /\ \A k \in 1 .. Len(start) : start[k] = <<Half, Half, Half>>) =>
        /\ \E k \in 1 .. Len(image) : image[k] = <<0, 0, 0>>
        /\ \E k \in 1 .. Len(image) : image[k] = <<One, One, One>>

\* Dithered has rendered a 2x2 image of mid grey.
C8_Witness ==
    /\ style = "Dithered" /\ status = "returned"
    /\ width = 2 /\ height = 2
    /\ \A k \in 1 .. 4 : start[k] = <<Half, Half, Half>>

\* The weight with which the pixel at (x, y) hands residual to (kx, ky).
Weight(x, y, kx, ky) ==
    CASE kx - x = 1 /\ ky - y = 0     -> 7
      [] kx - x = 0 - 1 /\ ky - y = 1 -> 3
      [] kx - x = 0 /\ ky - y = 1     -> 5
      [] kx - x = 1 /\ ky - y = 1     -> 1
      [] OTHER                        -> 0

Binary(pixel) == \A c \in 1 .. 3 : pixel[c] \in {0, One}

\* A step of the pass quantizes the pixel at the raster position pos, leaves
\* the pixels before it as they are, and adds to each pixel after it the share
\* of its place relative to (x, y), which is none for a non-neighbour.
RasterStep ==
    LET x == pos % width
        y == pos \div width
    IN  /\ pos' = pos + 1
        /\ \A k \in 1 .. pos : image'[k] = image[k]
        /\ Binary(image'[pos + 1])
        /\ \A c \in 1 .. 3 :
              /\ image'[pos + 1][c] = 0 <=> image[pos + 1][c] < Half
              /\ residual'[c] = image[pos + 1][c] - image'[pos + 1][c]
        /\ \A k \in pos + 2 .. width * height :
              \A c \in 1 .. 3 :
                  16 * (image'[k][c] - image[k][c])
                      = residual'[c] * Weight(x, y, (k - 1) % width, (k - 1) \div width)

ZeroValue(at) == image[at] = <<0, 0, 0>>

\* C9: floyd_steinberg visits the pixels in raster order, quantizes each once
\* and adds residual only to pixels not yet visited, never across the left or
\* right edge; when it ends every channel is 0 or 1, and the Braille style
\* DitheredBraille delegates to draws exactly the pixels of value 0.
C9_RasterOrderBinary ==
    /\ [](InPass => \A k \in 1 .. pos : Binary(image[k]))
    /\ []((InPass /\ status = "returned") => pos = width * height)
    /\ []((style = "DitheredBraille" /\ status = "returned")
              => BrailleGlyphs(ZeroValue))
    /\ [][(status = "dithering" /\ status' = "dithering") => RasterStep]_vars
    /\ [][(status = "dithering" /\ status' # "dithering") => image' = image]_vars

\* DitheredBraille has rendered a 2x2 image; the pixel at (1, 0) handed
\* residual to (0, 1), and the glyph shows some dots and not others.
C9_Witness ==
    /\ style = "DitheredBraille" /\ status = "returned"
    /\ width = 2 /\ height = 2
    /\ image[3] = <<0, 0, 0>> /\ start[3] = <<Half, Half, Half>>
    /\ image[1] = <<One, One, One>>
    /\ string[1][2] - 10240 \in 1 .. 254

\* C10: if the pass starts from channels in [0, 1], every residual quantize
\* produces lies in [-0.5, 0.5] and every channel not yet quantized lies in
\* [-0.5, 1.5].
C10_ErrorBounded ==
    (InPass /\ \A k \in 1 .. Len(start) : \A c \in 1 .. 3 :
                   start[k][c] >= 0 /\ start[k][c] <= One) =>
        /\ \A c \in 1 .. 3 : residual[c] >= 0 - Half /\ residual[c] <= Half
        /\ \A k \in pos + 1 .. Len(image) : \A c \in 1 .. 3 :
              image[k][c] >= 0 - Half /\ image[k][c] <= One + Half

\* Mid-pass, from channels in [0, 1]: the last residual is -0.5 and a pixel
\* still to be quantized has left [0, 1].
C10_Witness ==
    /\ Dithers /\ status = "dithering"
    /\ pos >= 1 /\ pos < width * height
    /\ \A k \in 1 .. Len(start) : start[k][1] >= 0 /\ start[k][1] <= One
    /\ residual[1] = 0 - Half
    /\ \E k \in pos + 1 .. Len(image) : image[k][1] < 0 \/ image[k][1] > One

====
